---- MODULE Spec2Model ----
(***************************************************************************)
(* Model of lib/signer.js (node-http-signature): signRequest builds the    *)
(* canonical signing string of an HTTP request, signs it and writes the    *)
(* credential header back onto the request.                                *)
(*                                                                         *)
(* JavaScript strings are sequences of one-character strings, so that      *)
(* toLowerCase, toUpperCase, concatenation, join, match and format are     *)
(* computed character by character.  A JavaScript value is a record        *)
(* [t |-> type, v |-> payload]: t is "undefined", "string", "number" or    *)
(* "array"; the payload of a string is its characters, the payload of an   *)
(* array is the sequence of its elements.                                  *)
(***************************************************************************)
EXTENDS Integers, Sequences, FiniteSets, TLC

VARIABLES request, options, last, prev, calls

vars == <<request, options, last, prev, calls>>

-----------------------------------------------------------------------------
(* JavaScript values and strings *)

Undefined == [t |-> "undefined", v |-> <<>>]

Str(s) == [t |-> "string", v |-> s]

Arr(a) == [t |-> "array", v |-> a]

FortyTwo == [t |-> "number", v |-> <<"4","2">>]

\* JavaScript truthiness, as used by the `!x` tests of signRequest
Truthy(x) ==
  IF x.t = "undefined" THEN FALSE
  ELSE IF x.t = "string" THEN x.v # <<>>
  ELSE TRUE

UpperCase == <<"A","B","C","D","E","F","G","H","I","J","K","L","M","N","O","P","Q","R","S","T","U","V","W","X","Y","Z">>

LowerCase == <<"a","b","c","d","e","f","g","h","i","j","k","l","m","n","o","p","q","r","s","t","u","v","w","x","y","z">>

Digits == <<"0","1","2","3","4","5","6","7","8","9">>

Range(s) == {s[i] : i \in 1..Len(s)}

IndexOf(c, s) == CHOOSE i \in 1..Len(s) : s[i] = c

toLowerCase(s) ==
  [i \in 1..Len(s) |->
     IF s[i] \in Range(UpperCase) THEN LowerCase[IndexOf(s[i], UpperCase)] ELSE s[i]]

toUpperCase(s) ==
  [i \in 1..Len(s) |->
     IF s[i] \in Range(LowerCase) THEN UpperCase[IndexOf(s[i], LowerCase)] ELSE s[i]]

\* Array.prototype.join over an array of strings
RECURSIVE join(_, _)
join(a, sep) ==
  IF Len(a) = 0 THEN <<>>
  ELSE IF Len(a) = 1 THEN a[1].v
  ELSE a[1].v \o sep \o join(Tail(a), sep)

\* util.format restricted to the %s directive, the only one the templates use
RECURSIVE sprintf(_, _)
sprintf(fmt, args) ==
  IF Len(fmt) = 0 THEN <<>>
  ELSE IF Len(fmt) >= 2 /\ fmt[1] = "%" /\ fmt[2] = "s" /\ Len(args) > 0
       THEN args[1] \o sprintf(SubSeq(fmt, 3, Len(fmt)), Tail(args))
  ELSE <<fmt[1]>> \o sprintf(Tail(fmt), args)

-----------------------------------------------------------------------------
(* Globals *)

Algorithms ==
  { <<"r","s","a","-","s","h","a","1">>, <<"r","s","a","-","s","h","a","2","5","6">>, <<"r","s","a","-","s","h","a","5","1","2">>, <<"d","s","a","-","s","h","a","1">>,
    <<"h","m","a","c","-","s","h","a","1">>, <<"h","m","a","c","-","s","h","a","2","5","6">>, <<"h","m","a","c","-","s","h","a","5","1","2">> }

DraftNames == { <<"0","4">>, <<"0","3">>, <<"0","1">> }

\* DraftOptions[draft], for the drafts of the table
DraftOptions(draft) ==
  IF draft = <<"0","4">>
  THEN [ specialHeader |-> <<"(","r","e","q","u","e","s","t","-","t","a","r","g","e","t",")">>,
         sigHeaderTemplate |-> <<"k","e","y","I","d","=","\"","%","s","\"",",","a","l","g","o","r","i","t","h","m","=","\"","%","s","\"",",","h","e","a","d","e","r","s","=","\"","%","s","\"",",","s","i","g","n","a","t","u","r","e","=","\"","%","s","\"">>,
         sigHeaderName |-> <<"S","i","g","n","a","t","u","r","e">> ]
  ELSE IF draft = <<"0","3">>
  THEN [ specialHeader |-> <<"(","r","e","q","u","e","s","t","-","t","a","r","g","e","t",")">>,
         sigHeaderTemplate |-> <<"k","e","y","I","d","=","\"","%","s","\"",",","a","l","g","o","r","i","t","h","m","=","\"","%","s","\"",",","h","e","a","d","e","r","s","=","\"","%","s","\"",",","s","i","g","n","a","t","u","r","e","=","\"","%","s","\"">>,
         sigHeaderName |-> <<"S","i","g","n","a","t","u","r","e">> ]
  ELSE [ specialHeader |-> <<"r","e","q","u","e","s","t","-","l","i","n","e">>,
         sigHeaderTemplate |-> <<"S","i","g","n","a","t","u","r","e"," ","k","e","y","I","d","=","\"","%","s","\"",",","a","l","g","o","r","i","t","h","m","=","\"","%","s","\"",",","h","e","a","d","e","r","s","=","\"","%","s","\"",",","s","i","g","n","a","t","u","r","e","=","\"","%","s","\"">>,
         sigHeaderName |-> <<"A","u","t","h","o","r","i","z","a","t","i","o","n">> ]

-----------------------------------------------------------------------------
(* Internal functions *)

RECURSIVE decimal(_)
decimal(n) == IF n < 10 THEN <<Digits[n + 1]>> ELSE decimal(n \div 10) \o <<Digits[(n % 10) + 1]>>

_pad(val) == IF val < 10 THEN <<"0">> \o decimal(val) ELSE decimal(val)

Months == << <<"J","a","n">>, <<"F","e","b">>, <<"M","a","r">>, <<"A","p","r">>, <<"M","a","y">>, <<"J","u","n">>,
             <<"J","u","l">>, <<"A","u","g">>, <<"S","e","p">>, <<"O","c","t">>, <<"N","o","v">>, <<"D","e","c">> >>

Days == << <<"S","u","n">>, <<"M","o","n">>, <<"T","u","e">>, <<"W","e","d">>, <<"T","h","u">>, <<"F","r","i">>, <<"S","a","t">> >>

\* date: the UTC fields of `new Date()`, month and day of week counted from 0
_rfc1123(date) ==
  Days[date.day + 1] \o <<","," ">> \o
  _pad(date.date) \o <<" ">> \o
  Months[date.month + 1] \o <<" ">> \o
  decimal(date.year) \o <<" ">> \o
  _pad(date.hours) \o <<":">> \o
  _pad(date.minutes) \o <<":">> \o
  _pad(date.seconds) \o
  <<" ","G","M","T">>

-----------------------------------------------------------------------------
(* The request object: http.ClientRequest keeps its headers under the      *)
(* lowercased name; getHeader of a header that was never set is undefined. *)

getHeader(req, name) ==
  IF toLowerCase(name) \in DOMAIN req.headers
  THEN req.headers[toLowerCase(name)]
  ELSE Undefined

setHeader(req, name, value) ==
  [req EXCEPT !.headers =
     [k \in DOMAIN req.headers \cup {toLowerCase(name)} |->
        IF k = toLowerCase(name) THEN Str(value) ELSE req.headers[k]]]

-----------------------------------------------------------------------------
(* The crypto primitives.  A PEM private key starts with "-"; anything     *)
(* else is a shared secret.  The "base64" result is kept symbolic: it      *)
(* names the primitive, the key and the signed data.                       *)

IsPem(key, family) ==
  /\ key.t = "string"
  /\ Len(key.v) > Len(family)
  /\ key.v[1] = "-"
  /\ SubSeq(key.v, 2, Len(family) + 1) = family

\* crypto.createHmac(digest, key): throws unless the key is a string
HmacAccepts(digest, key) == key.t = "string"

\* crypto.createSign(name).sign(key): throws unless the key is a private
\* key of the family the algorithm name starts with
SignAccepts(name, key) ==
  /\ Len(name) >= 3
  /\ IsPem(key, SubSeq(name, 1, 3))

Base64(fn, name, key, data) ==
  <<"{">> \o name \o <<",">> \o key.v \o <<",">> \o data \o <<"}">>

-----------------------------------------------------------------------------
(* signRequest *)

Error(kind, message) == [kind |-> kind, message |-> message]

Returned == [kind |-> "true", message |-> <<>>]

\* assert-plus: string(x) is typeof x === 'string'; the optional forms also
\* accept undefined.  The result is the name of the first argument that
\* fails, in the order of the assertions, or the empty string.
optionalString(x) == x.t \in {"undefined", "string"}

optionalArrayOfString(x) ==
  \/ x.t = "undefined"
  \/ /\ x.t = "array"
     /\ \A i \in 1..Len(x.v) : x.v[i].t = "string"

assertFailure(opts) ==
  IF ~optionalString(opts.algorithm) THEN <<"o","p","t","i","o","n","s",".","a","l","g","o","r","i","t","h","m">>
  ELSE IF opts.keyId.t # "string" THEN <<"o","p","t","i","o","n","s",".","k","e","y","I","d">>
  ELSE IF ~optionalArrayOfString(opts.headers) THEN <<"o","p","t","i","o","n","s",".","h","e","a","d","e","r","s">>
  ELSE IF ~optionalString(opts.httpVersion) THEN <<"o","p","t","i","o","n","s",".","h","t","t","p","V","e","r","s","i","o","n">>
  ELSE IF ~optionalString(opts.draft) THEN <<"o","p","t","i","o","n","s",".","d","r","a","f","t">>
  ELSE <<>>

\* the Date header set on every call
needsDate_always(req) == TRUE

\* lines 147-148: the Date header is set when getHeader('Date') is falsy
needsDate(req) == ~Truthy(getHeader(req, <<"D","a","t","e">>))

\* the httpVersion default forgotten
resolveDefaults_noVersion(opts) ==
  [opts EXCEPT
     !.headers = IF ~Truthy(@) THEN Arr(<<Str(<<"d","a","t","e">>)>>) ELSE @,
     !.algorithm = IF ~Truthy(@) THEN Str(<<"r","s","a","-","s","h","a","2","5","6">>) ELSE @,
     !.draft = IF ~Truthy(@) THEN Str(<<"0","4">>) ELSE @]

\* 'date' added to the caller's list instead of standing in for a missing one
resolveDefaults_append(opts) ==
  [opts EXCEPT
     !.headers = IF ~Truthy(@) THEN Arr(<<Str(<<"d","a","t","e">>)>>) ELSE Arr(Append(@.v, Str(<<"d","a","t","e">>))),
     !.algorithm = IF ~Truthy(@) THEN Str(<<"r","s","a","-","s","h","a","2","5","6">>) ELSE @,
     !.httpVersion = IF ~Truthy(@) THEN Str(<<"1",".","1">>) ELSE @,
     !.draft = IF ~Truthy(@) THEN Str(<<"0","4">>) ELSE @]

\* lines 149-157: the defaults are written into the caller's options object
resolveDefaults(opts) ==
  [opts EXCEPT
     !.headers = IF ~Truthy(@) THEN Arr(<<Str(<<"d","a","t","e">>)>>) ELSE @,
     !.algorithm = IF ~Truthy(@) THEN Str(<<"r","s","a","-","s","h","a","2","5","6">>) ELSE @,
     !.httpVersion = IF ~Truthy(@) THEN Str(<<"1",".","1">>) ELSE @,
     !.draft = IF ~Truthy(@) THEN Str(<<"0","4">>) ELSE @]

\* line 159
draftSupported(draft) == draft \in DraftNames

\* line 164
algorithmAllowed(algorithm) == algorithm \in Algorithms

\* the method lowercased for every draft
specialContribution_lowercased(req, opts, h) ==
  IF opts.draft.v = <<"0","1">>
  THEN toLowerCase(req.method) \o <<" ">> \o req.path \o <<" ","H","T","T","P","/">> \o opts.httpVersion.v
  ELSE h \o <<":"," ">> \o toLowerCase(req.method) \o <<" ">> \o req.path

\* lines 184-188: the contribution of the draft's pseudo-header
specialContribution(req, opts, h) ==
  IF opts.draft.v = <<"0","1">>
  THEN req.method \o <<" ">> \o req.path \o <<" ","H","T","T","P","/">> \o opts.httpVersion.v
  ELSE h \o <<":"," ">> \o toLowerCase(req.method) \o <<" ">> \o req.path

\* line 182
headerContribution(h, value) == h \o <<":"," ">> \o value.v

\* the check for a missing header left out
missing_never(value) == FALSE

\* line 179
missing(value) == ~Truthy(value)

\* a newline after every contribution, the last one too
separator_always(i, n) == <<"\n">>

\* lines 191-192
separator(i, n) == IF (i + 1) < n THEN <<"\n">> ELSE <<>>

\* lines 171-193; i counts from 0 as in the source.  The result is the
\* error thrown inside the loop, if any, and the string built so far.
RECURSIVE canonicalize(_, _, _, _, _)
canonicalize(req, opts, specialHeader, i, stringToSign) ==
  IF ~(i < Len(opts.headers.v))
  THEN [err |-> Returned, stringToSign |-> stringToSign]
  ELSE IF opts.headers.v[i + 1].t # "string"
  THEN [err |-> Error("TypeError", <<"o","p","t","i","o","n","s",".","h","e","a","d","e","r","s"," ","m","u","s","t"," ","b","e"," ","a","n"," ","a","r","r","a","y"," ","o","f"," ","S","t","r","i","n","g","s">>),
        stringToSign |-> stringToSign]
  ELSE
    LET h == toLowerCase(opts.headers.v[i + 1].v)
        value == getHeader(req, h)
    IN IF h # specialHeader /\ missing(value)
       THEN [err |-> Error("MissingHeaderError", h \o <<" ","w","a","s"," ","n","o","t"," ","i","n"," ","t","h","e"," ","r","e","q","u","e","s","t">>),
             stringToSign |-> stringToSign]
       ELSE
         canonicalize(req, opts, specialHeader, i + 1,
           stringToSign
             \o (IF h # specialHeader
                 THEN headerContribution(h, value)
                 ELSE specialContribution(req, opts, h))
             \o separator(i, Len(opts.headers.v)))

\* \w of the regular expression
WordChars == Range(UpperCase) \cup Range(LowerCase) \cup Range(Digits) \cup {"_"}

RECURSIVE wordRun(_, _)
wordRun(s, i) ==
  IF i <= Len(s) /\ s[i] \in WordChars THEN <<s[i]>> \o wordRun(s, i + 1) ELSE <<>>

matchesAt(s, i, family) ==
  /\ i + Len(family) <= Len(s)
  /\ SubSeq(s, i, i + Len(family) - 1) = family
  /\ s[i + Len(family)] = "-"
  /\ wordRun(s, i + Len(family) + 1) # <<>>

\* line 197: algorithm.match(/(hmac|rsa)-(\w+)/), the leftmost match; the
\* result is <<whole, family, digest>> (alg[0], alg[1], alg[2]) or <<>> for null
RECURSIVE matchFrom(_, _)
matchFrom(s, i) ==
  IF i > Len(s) THEN <<>>
  ELSE IF matchesAt(s, i, <<"h","m","a","c">>)
  THEN <<<<"h","m","a","c","-">> \o wordRun(s, i + 5), <<"h","m","a","c">>, wordRun(s, i + 5)>>
  ELSE IF matchesAt(s, i, <<"r","s","a">>)
  THEN <<<<"r","s","a","-">> \o wordRun(s, i + 4), <<"r","s","a">>, wordRun(s, i + 4)>>
  ELSE matchFrom(s, i + 1)

match(algorithm) == matchFrom(algorithm, 1)

\* lines 199-209: the primitive that is called, [fn, name, key, data], and
\* whether it accepts the key
primitiveCall(alg, opts, stringToSign) ==
  IF alg[2] = <<"h","m","a","c">>
  THEN [fn |-> "createHmac", name |-> toUpperCase(alg[3]),
        key |-> opts.key, data |-> stringToSign]
  ELSE [fn |-> "createSign", name |-> toUpperCase(opts.algorithm.v),
        key |-> opts.key, data |-> stringToSign]

primitiveAccepts(call) ==
  IF call.fn = "createHmac" THEN HmacAccepts(call.name, call.key)
  ELSE SignAccepts(call.name, call.key)

signature(call) == Base64(call.fn, call.name, call.key, call.data)

\* the header list rendered from the lowercased names
credentialValue_lowercased(opts, sig) ==
  sprintf(DraftOptions(opts.draft.v).sigHeaderTemplate,
          << opts.keyId.v, opts.algorithm.v,
             join([i \in 1..Len(opts.headers.v) |-> Str(toLowerCase(opts.headers.v[i].v))], <<" ">>),
             sig >>)

\* lines 211-218
credentialValue(opts, sig) ==
  sprintf(DraftOptions(opts.draft.v).sigHeaderTemplate,
          << opts.keyId.v, opts.algorithm.v, join(opts.headers.v, <<" ">>), sig >>)

\* What one call leaves behind: the request and options objects after the
\* call, how the call ended, the signing string that was built (undefined
\* when the loop was not completed), the setHeader calls on the request and
\* the calls to the crypto primitives, both in order.
Outcome(req, opts, ret, stringToSign, writes, primitives) ==
  [request |-> req, options |-> opts, ret |-> ret, stringToSign |-> stringToSign,
   writes |-> writes, primitives |-> primitives]

Write(name, value) == [name |-> name, value |-> value]

\* lines 166-219, entered with the defaults resolved and the draft and the
\* algorithm accepted
signAndSet(req, opts, writes) ==
  LET canon == canonicalize(req, opts, DraftOptions(opts.draft.v).specialHeader, 0, <<>>)
      alg == match(opts.algorithm.v)
      call == primitiveCall(alg, opts, canon.stringToSign)
      value == credentialValue(opts, signature(call))
      sigHeader == DraftOptions(opts.draft.v).sigHeaderName
  IN IF canon.err.kind # "true"
     THEN Outcome(req, opts, canon.err, Undefined, writes, <<>>)
     ELSE IF alg = <<>>
     THEN Outcome(req, opts, Error("TypeError", <<"C","a","n","n","o","t"," ","r","e","a","d"," ","p","r","o","p","e","r","t","y"," ","'","1","'"," ","o","f"," ","n","u","l","l">>),
                  Str(canon.stringToSign), writes, <<>>)
     ELSE IF ~primitiveAccepts(call)
     THEN Outcome(req, opts, Error("Error", <<"c","r","y","p","t","o">>),
                  Str(canon.stringToSign), writes, <<call>>)
     ELSE Outcome(setHeader(req, sigHeader, value), opts, Returned,
                  Str(canon.stringToSign), Append(writes, Write(sigHeader, value)), <<call>>)

\* lines 147-165, entered with the assertions passed
resolveAndSign(req, opts, date) ==
  LET req1 == IF needsDate(req) THEN setHeader(req, <<"D","a","t","e">>, _rfc1123(date)) ELSE req
      writes == IF needsDate(req) THEN <<Write(<<"D","a","t","e">>, _rfc1123(date))>> ELSE <<>>
      opts1 == resolveDefaults(opts)
      opts2 == [opts1 EXCEPT !.algorithm = Str(toLowerCase(@.v))]
  IN IF ~draftSupported(opts1.draft.v)
     THEN Outcome(req1, opts1,
                  Error("InvalidDraftError", <<"d","r","a","f","t"," ">> \o opts1.draft.v \o <<" ","i","s"," ","n","o","t"," ","s","u","p","p","o","r","t","e","d">>),
                  Undefined, writes, <<>>)
     ELSE IF ~algorithmAllowed(opts2.algorithm.v)
     THEN Outcome(req1, opts2,
                  Error("InvalidAlgorithmError", opts2.algorithm.v \o <<" ","i","s"," ","n","o","t"," ","s","u","p","p","o","r","t","e","d">>),
                  Undefined, writes, <<>>)
     ELSE signAndSet(req1, opts2, writes)

\* lines 138-220
signRequest(req, opts, date) ==
  IF assertFailure(opts) # <<>>
  THEN Outcome(req, opts, Error("AssertionError", assertFailure(opts)), Undefined, <<>>, <<>>)
  ELSE resolveAndSign(req, opts, date)

-----------------------------------------------------------------------------
(* The callers' inputs *)

MaxCalls == 2

Targets ==
  { [method |-> <<"G","E","T">>, path |-> <<"/","f","o","o">>],
    [method |-> <<"P","o","s","t">>, path |-> <<"/","a">>] }

DateValues == { Undefined, Str(<<>>), Str(<<"T","u","e",","," ","0","3"," ","N","o","v"," ","2","0","2","6"," ","1","0",":","0","0",":","0","0"," ","G","M","T">>) }

HostValues == { Undefined, Str(<<"E","x",".","o","r","g">>) }

CredentialValues == { Undefined, Str(<<"o","l","d">>) }

Message(t, d, h, c) ==
  [method |-> t.method, path |-> t.path,
   headers |-> (<<"d","a","t","e">> :> d) @@ (<<"h","o","s","t">> :> h)
               @@ (<<"s","i","g","n","a","t","u","r","e">> :> c) @@ (<<"a","u","t","h","o","r","i","z","a","t","i","o","n">> :> c)]

\* every combination of the values above, and the messages whose Host header
\* is the empty string
Requests ==
  { Message(t, d, h, c) :
    t \in Targets, d \in DateValues, h \in HostValues, c \in CredentialValues }
  \cup { Message(t, d, Str(<<>>), Undefined) : t \in Targets, d \in {Undefined, Str(<<>>)} }

\* the values of `new Date()` the calls may see
Clock ==
  { [day |-> 4, date |-> 5, month |-> 10, year |-> 2026,
     hours |-> 7, minutes |-> 10, seconds |-> 9],
    [day |-> 6, date |-> 12, month |-> 11, year |-> 2026,
     hours |-> 23, minutes |-> 59, seconds |-> 30] }

RsaKey == Str(<<"-","R","S","A"," ","K","E","Y","-">>)

DsaKey == Str(<<"-","D","S","A"," ","K","E","Y","-">>)

Secret == Str(<<"s","e","c","r","e","t">>)

KeyId == Str(<<"K","e","y","1">>)

TwoDates == Arr(<<Str(<<"D","a","t","e">>), Str(<<"(","R","e","q","u","e","s","t","-","T","a","r","g","e","t",")">>), Str(<<"d","a","t","e">>)>>)

LineAndHost == Arr(<<Str(<<"r","e","q","u","e","s","t","-","l","i","n","e">>), Str(<<"H","o","s","t">>)>>)

HostFirst == Arr(<<Str(<<"H","o","s","t">>), Str(<<"d","a","t","e">>), Str(<<"R","e","q","u","e","s","t","-","L","i","n","e">>)>>)

NotAllStrings == Arr(<<Str(<<"d","a","t","e">>), FortyTwo>>)

AlgorithmInputs ==
  { Undefined, Str(<<>>), Str(<<"R","S","A","-","S","H","A","2","5","6">>), Str(<<"r","s","a","-","s","h","a","1">>), Str(<<"r","s","a","-","s","h","a","5","1","2">>),
    Str(<<"d","s","a","-","s","h","a","1">>), Str(<<"h","m","a","c","-","s","h","a","1">>), Str(<<"H","m","a","c","-","S","H","A","2","5","6">>), Str(<<"h","m","a","c","-","s","h","a","5","1","2">>),
    Str(<<"r","s","a","-","m","d","5">>) }

Opts(keyId, key, headers, algorithm, httpVersion, draft) ==
  [keyId |-> keyId, key |-> key, headers |-> headers, algorithm |-> algorithm,
   httpVersion |-> httpVersion, draft |-> draft]

\* every algorithm with every kind of key
AlgorithmSweep ==
  { Opts(KeyId, k, Undefined, a, Undefined, d) :
    k \in {RsaKey, DsaKey, Secret}, a \in AlgorithmInputs,
    d \in {Undefined, Str(<<"0","1">>)} }

\* every header list with every draft and httpVersion
HeaderSweep ==
  { Opts(KeyId, Secret, h, Str(<<"H","m","a","c","-","S","H","A","2","5","6">>), v, d) :
    h \in {Undefined, Arr(<<>>), TwoDates, LineAndHost, HostFirst},
    v \in {Undefined, Str(<<>>), Str(<<"1",".","0">>)},
    d \in {Undefined, Str(<<"0","1">>), Str(<<"0","3">>), Str(<<"0","4">>), Str(<<"0","2">>)} }

\* the malformed option bundles
UsageSweep ==
  { Opts(i, Secret, h, a, Undefined, d) :
    i \in {Undefined, FortyTwo, Str(<<>>), KeyId},
    h \in {Undefined, NotAllStrings, LineAndHost},
    a \in {Undefined, Str(<<"r","s","a","-","m","d","5">>)},
    d \in {Undefined, Str(<<>>), Str(<<"0","2">>)} }

OptionsInputs == AlgorithmSweep \cup HeaderSweep \cup UsageSweep

-----------------------------------------------------------------------------
(* The state: the caller's request and options objects, what the last call *)
(* and the call before it did, and the number of calls made.               *)

NoDate == [day |-> 0, date |-> 0, month |-> 0, year |-> 0,
           hours |-> 0, minutes |-> 0, seconds |-> 0]

\* the record of one call: the objects at entry and at exit, the clock, and
\* the outcome
Call(req, opts, date, out) ==
  [entryRequest |-> req, entryOptions |-> opts, date |-> date,
   exitRequest |-> out.request, exitOptions |-> out.options,
   ret |-> out.ret, stringToSign |-> out.stringToSign,
   writes |-> out.writes, primitives |-> out.primitives]

NoRequest == [method |-> <<>>, path |-> <<>>, headers |-> <<>>]

NoOptions == Opts(Undefined, Undefined, Undefined, Undefined, Undefined, Undefined)

NoCall ==
  [entryRequest |-> NoRequest, entryOptions |-> NoOptions,
   exitRequest |-> NoRequest, exitOptions |-> NoOptions,
   date |-> NoDate, ret |-> [kind |-> "none", message |-> <<>>],
   stringToSign |-> Undefined, writes |-> <<>>, primitives |-> <<>>]

Init ==
  /\ request \in Requests
  /\ options \in OptionsInputs
  /\ last = NoCall
  /\ prev = NoCall
  /\ calls = 0

\* a call of signRequest(request, options)
SignRequest ==
  /\ calls < MaxCalls
  /\ \E date \in Clock :
       LET out == signRequest(request, options, date)
       IN /\ request' = out.request
          /\ options' = out.options
          /\ last' = Call(request, options, date, out)
  /\ prev' = last
  /\ calls' = calls + 1

\* the caller builds a request and an options object equal to the ones the
\* last call was given
FreshCopies ==
  /\ last.ret.kind # "none"
  /\ calls < MaxCalls
  /\ <<request, options>> # <<last.entryRequest, last.entryOptions>>
  /\ request' = last.entryRequest
  /\ options' = last.entryOptions
  /\ UNCHANGED <<last, prev, calls>>

Next == SignRequest \/ FreshCopies

Spec == Init /\ [][Next]_vars

-----------------------------------------------------------------------------
(* Properties.  They speak of the last call: the objects it was given      *)
(* (last.entryRequest, last.entryOptions), the objects as it left them     *)
(* (last.exitRequest, last.exitOptions), and how the call ended.           *)

Called == last.ret.kind # "none"

Failed == Called /\ last.ret.kind # "true"

WellTyped(o) ==
  /\ o.keyId.t = "string"
  /\ o.algorithm.t \in {"undefined", "string"}
  /\ o.httpVersion.t \in {"undefined", "string"}
  /\ o.draft.t \in {"undefined", "string"}
  /\ \/ o.headers.t = "undefined"
     \/ o.headers.t = "array" /\ \A i \in 1..Len(o.headers.v) : o.headers.v[i].t = "string"

\* the value of an option: the one given, or the default when none is given
\* (an empty string counts as none)
Given(x, default) == IF x.t = "string" /\ x.v # <<>> THEN x.v ELSE default

GivenDraft(o) == Given(o.draft, <<"0","4">>)

GivenAlgorithm(o) == Given(o.algorithm, <<"r","s","a","-","s","h","a","2","5","6">>)

GivenVersion(o) == Given(o.httpVersion, <<"1",".","1">>)

GivenHeaders(o) == IF o.headers.t = "array" THEN o.headers.v ELSE <<Str(<<"d","a","t","e">>)>>

PseudoHeader(draft) == IF draft = <<"0","1">> THEN <<"r","e","q","u","e","s","t","-","l","i","n","e">> ELSE <<"(","r","e","q","u","e","s","t","-","t","a","r","g","e","t",")">>

CredentialHeader(draft) == IF draft = <<"0","1">> THEN <<"a","u","t","h","o","r","i","z","a","t","i","o","n">> ELSE <<"s","i","g","n","a","t","u","r","e">>

AllowList ==
  { <<"r","s","a","-","s","h","a","1">>, <<"r","s","a","-","s","h","a","2","5","6">>, <<"r","s","a","-","s","h","a","5","1","2">>, <<"d","s","a","-","s","h","a","1">>,
    <<"h","m","a","c","-","s","h","a","1">>, <<"h","m","a","c","-","s","h","a","2","5","6">>, <<"h","m","a","c","-","s","h","a","5","1","2">> }

Supported == { <<"0","1">>, <<"0","3">>, <<"0","4">> }

HasValue(x) == x.t = "string" /\ x.v # <<>>

\* entry i of the requested headers is an ordinary header without a value
\* when it is looked up (Date always has one by then)
Lacking(req, o, i) ==
  LET h == toLowerCase(GivenHeaders(o)[i].v)
  IN /\ h # PseudoHeader(GivenDraft(o))
     /\ h # <<"d","a","t","e">>
     /\ ~HasValue(getHeader(req, h))

AllPresent(req, o) == \A i \in 1..Len(GivenHeaders(o)) : ~Lacking(req, o, i)

\* C1: whenever signRequest fails with InvalidDraftError or with
\* InvalidAlgorithmError, every header of the message, Date included, is as
\* it was before the call.
C1_UntouchedOnInvalid ==
  last.ret.kind \in {"InvalidDraftError", "InvalidAlgorithmError"}
    => last.exitRequest = last.entryRequest

\* the family and digest the algorithm name stands for
FamilyOf(a) == SubSeq(a, 1, IndexOf("-", a) - 1)

DigestOf(a) == SubSeq(a, IndexOf("-", a) + 1, Len(a))

KeyFits(a, key) ==
  IF FamilyOf(a) = <<"h","m","a","c">> THEN key.t = "string" ELSE IsPem(key, toUpperCase(FamilyOf(a)))

\* C2: an algorithm outside the allow-list (compared in lower case) fails
\* with InvalidAlgorithmError; each of the seven members, dsa-sha1 included,
\* reaches the primitive of its family (hmac: keyed hash named by the
\* digest; rsa, dsa: asymmetric sign named by the whole algorithm) and
\* returns true when the primitive accepts the key and every requested header
\* is present.  Stated for calls that pass the assertions and name a supported
\* draft and an algorithm.
C2_AllowList ==
  LET o == last.entryOptions
      a == toLowerCase(o.algorithm.v)
  IN (Called /\ WellTyped(o) /\ GivenDraft(o) \in Supported /\ HasValue(o.algorithm))
     => /\ a \notin AllowList => last.ret.kind = "InvalidAlgorithmError"
        /\ (a \in AllowList /\ KeyFits(a, o.key) /\ AllPresent(last.entryRequest, o))
           => /\ last.ret.kind = "true"
              /\ Len(last.primitives) = 1
              /\ IF FamilyOf(a) = <<"h","m","a","c">>
                 THEN /\ last.primitives[1].fn = "createHmac"
                      /\ last.primitives[1].name = toUpperCase(DigestOf(a))
                 ELSE /\ last.primitives[1].fn = "createSign"
                      /\ last.primitives[1].name = toUpperCase(a)

\* C2 without dsa-sha1: the same statement for the other six members
C2_ExceptDsa ==
  last.entryOptions.algorithm.v # <<"d","s","a","-","s","h","a","1">> => C2_AllowList

\* C7: a call whose keyId is absent, is not a string or is the empty string,
\* or whose headers hold an element that is not a string, fails with a usage
\* error and leaves the message untouched.
C7_UsageErrors ==
  LET o == last.entryOptions
  IN (Called /\ (\/ ~HasValue(o.keyId)
                 \/ o.headers.t = "array" /\ \E i \in 1..Len(o.headers.v) : o.headers.v[i].t # "string"))
     => /\ last.ret.kind = "AssertionError"
        /\ last.exitRequest = last.entryRequest
        /\ last.writes = <<>>

\* C7 without the empty keyId
C7_ExceptEmpty ==
  last.entryOptions.keyId # Str(<<>>) => C7_UsageErrors

-----------------------------------------------------------------------------
(* String helpers of the properties *)

StartsWith(s, p) == Len(s) >= Len(p) /\ SubSeq(s, 1, Len(p)) = p

EndsWith(s, p) == Len(s) >= Len(p) /\ SubSeq(s, Len(s) - Len(p) + 1, Len(s)) = p

FirstNewline(s) == CHOOSE i \in 1..Len(s) : s[i] = "\n" /\ \A j \in 1..(i - 1) : s[j] # "\n"

RECURSIVE SplitLines(_)
SplitLines(s) ==
  IF "\n" \notin Range(s) THEN <<s>>
  ELSE <<SubSeq(s, 1, FirstNewline(s) - 1)>>
         \o SplitLines(SubSeq(s, FirstNewline(s) + 1, Len(s)))

RECURSIVE Spaced(_)
Spaced(hs) ==
  IF hs = <<>> THEN <<>>
  ELSE IF Len(hs) = 1 THEN hs[1].v
  ELSE hs[1].v \o <<" ">> \o Spaced(Tail(hs))

\* the setHeader calls of the last call that name header k (in lower case)
WritesTo(k) == {i \in 1..Len(last.writes) : toLowerCase(last.writes[i].name) = k}

CredentialNames == { <<"s","i","g","n","a","t","u","r","e">>, <<"a","u","t","h","o","r","i","z","a","t","i","o","n">> }

NoCredentialWritten ==
  /\ \A k \in CredentialNames :
       WritesTo(k) = {} /\ getHeader(last.exitRequest, k) = getHeader(last.entryRequest, k)

\* the first requested header that is lacking
FirstLacking(req, o) ==
  CHOOSE i \in 1..Len(GivenHeaders(o)) :
    Lacking(req, o, i) /\ \A j \in 1..(i - 1) : ~Lacking(req, o, j)

SomeLacking(req, o) ==
  /\ o.headers.t \in {"undefined", "array"}
  /\ \A i \in 1..Len(GivenHeaders(o)) : GivenHeaders(o)[i].t = "string"
  /\ \E i \in 1..Len(GivenHeaders(o)) : Lacking(req, o, i)

\* the call ends in one of two ways: true, with the draft's credential header
\* set last to a completely filled template that carries the signature the
\* primitive returned; or an error, with no credential header set or changed
C3_TwoEndings ==
  Called =>
    \/ /\ last.ret.kind = "true"
       /\ Len(last.primitives) = 1
       /\ LET k == CredentialHeader(GivenDraft(last.entryOptions))
              w == last.writes[Len(last.writes)]
          IN /\ WritesTo(k) = {Len(last.writes)}
             /\ getHeader(last.exitRequest, k) = Str(w.value)
             /\ "%" \notin Range(w.value)
             /\ StartsWith(w.value, IF k = <<"a","u","t","h","o","r","i","z","a","t","i","o","n">> THEN <<"S","i","g","n","a","t","u","r","e"," ","k","e","y","I","d","=","\"">> ELSE <<"k","e","y","I","d","=","\"">>)
             /\ EndsWith(w.value, <<",","s","i","g","n","a","t","u","r","e","=","\"">> \o signature(last.primitives[1]) \o <<"\"">>)
    \/ /\ Failed
       /\ NoCredentialWritten

MissingHeaderNamed ==
  LET o == last.entryOptions
      i == FirstLacking(last.entryRequest, o)
  IN /\ last.ret.kind = "MissingHeaderError"
     /\ last.ret.message = toLowerCase(GivenHeaders(o)[i].v) \o <<" ","w","a","s"," ","n","o","t"," ","i","n"," ","t","h","e"," ","r","e","q","u","e","s","t">>
     /\ last.primitives = <<>>

\* C3 as stated: the two endings, and whenever a requested header other than
\* the selected draft's pseudo-header has no value on the message, the call
\* fails with MissingHeaderError naming the first such header, and no primitive
\* is invoked.  Stated for the calls that pass the assertions and select a
\* draft of the table.
C3_MissingHeaderAlways ==
  /\ C3_TwoEndings
  /\ (Called /\ WellTyped(last.entryOptions)
             /\ GivenDraft(last.entryOptions) \in Supported
             /\ SomeLacking(last.entryRequest, last.entryOptions))
       => MissingHeaderNamed

\* C3 as amended: the two endings, and whenever the call passes the
\* assertions and the draft check and its algorithm is in the allow-list, and
\* a requested header other than the selected draft's pseudo-header has no
\* value on the message, the call fails with MissingHeaderError naming the
\* first such header, and no primitive is invoked.
C3_MissingHeaderAfterValidation ==
  /\ C3_TwoEndings
  /\ (Called /\ WellTyped(last.entryOptions)
             /\ GivenDraft(last.entryOptions) \in Supported
             /\ toLowerCase(GivenAlgorithm(last.entryOptions)) \in AllowList
             /\ SomeLacking(last.entryRequest, last.entryOptions))
       => MissingHeaderNamed

\* two requested headers are lacking, the first of them the pseudo-header of
\* another draft, and the call failed with MissingHeaderError after the Date
\* header was set, leaving the earlier credentials as they were
C3_Witness ==
  /\ last.ret.kind = "MissingHeaderError"
  /\ last.entryOptions.headers = LineAndHost
  /\ GivenDraft(last.entryOptions) = <<"0","3">>
  /\ ~HasValue(getHeader(last.entryRequest, <<"h","o","s","t">>))
  /\ Len(last.writes) = 1
  /\ getHeader(last.exitRequest, <<"s","i","g","n","a","t","u","r","e">>) = Str(<<"o","l","d">>)

-----------------------------------------------------------------------------
(* The signing string and the credential header *)

\* the value the loop finds for header h (in lower case): Date is the one the
\* call left on the message, every other header the one it was given
AtLookup(h) ==
  IF h = <<"d","a","t","e">> THEN getHeader(last.exitRequest, h) ELSE getHeader(last.entryRequest, h)

PseudoContribution(req, o) ==
  IF GivenDraft(o) = <<"0","1">>
  THEN req.method \o <<" ">> \o req.path \o <<" ","H","T","T","P","/">> \o GivenVersion(o)
  ELSE <<"(","r","e","q","u","e","s","t","-","t","a","r","g","e","t",")",":"," ">> \o toLowerCase(req.method) \o <<" ">> \o req.path

Contribution(i) ==
  LET o == last.entryOptions
      h == toLowerCase(GivenHeaders(o)[i].v)
  IN IF h = PseudoHeader(GivenDraft(o))
     THEN PseudoContribution(last.entryRequest, o)
     ELSE h \o <<":"," ">> \o AtLookup(h).v

Succeeded == last.ret.kind = "true"

PseudoRequested ==
  \E i \in 1..Len(GivenHeaders(last.entryOptions)) :
    toLowerCase(GivenHeaders(last.entryOptions)[i].v) = PseudoHeader(GivenDraft(last.entryOptions))

OtherDraft(d) == IF d = <<"0","3">> THEN <<"0","4">> ELSE <<"0","3">>

C5_SigningString ==
  LET n == Len(GivenHeaders(last.entryOptions))
      s == last.stringToSign.v
  IN (Called /\ last.stringToSign.t = "string") =>
       /\ n = 0 => s = <<>>
       /\ n >= 1 => /\ SplitLines(s) = [i \in 1..n |-> Contribution(i)]
                    /\ Cardinality({i \in 1..Len(s) : s[i] = "\n"}) = n - 1
       /\ \A i \in 1..Len(last.primitives) : last.primitives[i].data = s

\* three contributions, two of them of the same header, were signed
C5_Witness ==
  /\ Succeeded
  /\ last.entryOptions.headers = TwoDates
  /\ Len(SplitLines(last.stringToSign.v)) = 3
  /\ Len(last.primitives) = 1

\* C6: after a successful call the credential header is the draft's template
\* filled with keyId as given, the lowercased algorithm, the elements of
\* options.headers joined by single spaces in their order and letter case
\* ("date" when defaulted), and the signature; an earlier value is overwritten.
C6_CredentialHeader ==
  LET o == last.entryOptions
      d == GivenDraft(o)
  IN Succeeded =>
       getHeader(last.exitRequest, CredentialHeader(d)) =
         Str((IF d = <<"0","1">> THEN <<"S","i","g","n","a","t","u","r","e"," ">> ELSE <<>>)
             \o <<"k","e","y","I","d","=","\"">> \o o.keyId.v
             \o <<"\"",",","a","l","g","o","r","i","t","h","m","=","\"">> \o toLowerCase(GivenAlgorithm(o))
             \o <<"\"",",","h","e","a","d","e","r","s","=","\"">> \o Spaced(GivenHeaders(o))
             \o <<"\"",",","s","i","g","n","a","t","u","r","e","=","\"">> \o signature(last.primitives[1])
             \o <<"\"">>)

\* a success that overwrote an earlier credential, with header names in mixed
\* case and an algorithm given in upper case
C6_Witness ==
  /\ Succeeded
  /\ last.entryOptions.headers = TwoDates
  /\ last.entryOptions.algorithm = Str(<<"H","m","a","c","-","S","H","A","2","5","6">>)
  /\ getHeader(last.entryRequest, <<"s","i","g","n","a","t","u","r","e">>) = Str(<<"o","l","d">>)
  /\ GivenDraft(last.entryOptions) = <<"0","3">>

-----------------------------------------------------------------------------
(* Frame properties *)

IsDateWrite(w) == toLowerCase(w.name) = <<"d","a","t","e">>

IsCredentialWrite(w) ==
  toLowerCase(w.name) = CredentialHeader(GivenDraft(last.entryOptions))

\* the headers and the target that the writes of the last call leave alone
OnlyWrittenChange ==
  LET before == last.entryRequest
      after == last.exitRequest
      written == {toLowerCase(last.writes[i].name) : i \in 1..Len(last.writes)}
  IN /\ after.method = before.method
     /\ after.path = before.path
     /\ DOMAIN after.headers = DOMAIN before.headers \cup written
     /\ \A k \in DOMAIN before.headers \ written : after.headers[k] = before.headers[k]
     /\ \A i \in 1..Len(last.writes) :
          \/ \E j \in (i + 1)..Len(last.writes) : toLowerCase(last.writes[j].name) = toLowerCase(last.writes[i].name)
          \/ after.headers[toLowerCase(last.writes[i].name)] = Str(last.writes[i].value)

IsSet(x) == x.t # "undefined"

\* whether x is a value: an empty string is one only if emptyCounts
IsValue(x, emptyCounts) == IF emptyCounts THEN IsSet(x) ELSE HasValue(x)

\* the writes of a call, given whether an empty Date header is a Date value
WritesInOrder(emptyCounts) ==
  LET before == last.entryRequest
      after == last.exitRequest
      n == Len(last.writes)
  IN Called =>
       /\ n <= 2
       /\ n = 2 => IsDateWrite(last.writes[1]) /\ IsCredentialWrite(last.writes[2])
       /\ n = 1 => IsDateWrite(last.writes[1]) \/ IsCredentialWrite(last.writes[1])
       /\ \A i \in 1..n :
            IsDateWrite(last.writes[i]) => ~IsValue(getHeader(before, <<"d","a","t","e">>), emptyCounts)
       /\ IsValue(getHeader(before, <<"d","a","t","e">>), emptyCounts) =>
            getHeader(after, <<"d","a","t","e">>) = getHeader(before, <<"d","a","t","e">>)
       /\ \A i \in 1..n :
            (IsCredentialWrite(last.writes[i]) /\ ~IsDateWrite(last.writes[i])) =>
              /\ Succeeded
              /\ last.stringToSign.t = "string"
              /\ Len(last.primitives) = 1
       /\ OnlyWrittenChange
       /\ last.ret.kind = "MissingHeaderError" =>
            \/ after = before
            \/ /\ ~IsValue(getHeader(before, <<"d","a","t","e">>), emptyCounts)
               /\ after = [before EXCEPT !.headers[<<"d","a","t","e">>] = Str(last.writes[1].value)]

-----------------------------------------------------------------------------
(* Two calls *)

TwoCalls == prev.ret.kind # "none"

SameTarget(r1, r2) == r1.method = r2.method /\ r1.path = r2.path

\* the headers that options.headers name have the same values on both messages
SameNamedHeaders(o, r1, r2) ==
  \A i \in 1..Len(GivenHeaders(o)) :
    GivenHeaders(o)[i].t = "string" =>
      getHeader(r1, GivenHeaders(o)[i].v) = getHeader(r2, GivenHeaders(o)[i].v)

CredentialOf(c) ==
  {c.writes[i].value : i \in {j \in 1..Len(c.writes) : ~IsDateWrite(c.writes[j])}}

SameResult ==
  /\ last.stringToSign = prev.stringToSign
  /\ last.ret = prev.ret
  /\ CredentialOf(last) = CredentialOf(prev)

C9_WitnessCopies ==
  /\ TwoCalls
  /\ Succeeded
  /\ HasValue(getHeader(prev.entryRequest, <<"d","a","t","e">>))
  /\ last.entryOptions = prev.entryOptions
  /\ last.entryRequest = prev.entryRequest
  /\ last.date # prev.date

-----------------------------------------------------------------------------
(* The options object *)

\* what a call that passes the assertions leaves in options, given whether
\* an option given as the empty string is a value the caller supplied
OptionsAfter(emptyCounts) ==
  LET o == last.entryOptions
      a == last.exitOptions
      draft == IF IsValue(o.draft, emptyCounts) THEN o.draft.v ELSE <<"0","4">>
      algorithm == IF IsValue(o.algorithm, emptyCounts) THEN o.algorithm.v ELSE <<"r","s","a","-","s","h","a","2","5","6">>
  IN (Called /\ WellTyped(o)) =>
       /\ IsSet(a.headers) /\ IsSet(a.algorithm) /\ IsSet(a.httpVersion) /\ IsSet(a.draft)
       /\ a.headers = IF IsSet(o.headers) THEN o.headers ELSE Arr(<<Str(<<"d","a","t","e">>)>>)
       /\ a.httpVersion = IF IsValue(o.httpVersion, emptyCounts) THEN o.httpVersion ELSE Str(<<"1",".","1">>)
       /\ a.draft = Str(draft)
       /\ a.algorithm = IF draft \in Supported THEN Str(toLowerCase(algorithm)) ELSE Str(algorithm)
       /\ a.keyId = o.keyId
       /\ a.key = o.key

====
